---- MODULE Spec2Model ----
(***************************************************************************)
(* Model of the crawl client of client/src/App.vue: the reactive state of  *)
(* the component, its event handlers (URL field, page-count field, crawl   *)
(* button, Enter key, editor, the two export buttons) and the completion   *)
(* of the asynchronous crawl request.                                      *)
(*                                                                         *)
(* Strings the code computes on (the URL field, the page-count field) are  *)
(* sequences of one-character strings.  Texts the code only moves around   *)
(* (editor buffer, blobs) are sequences of lexemes.                        *)
(***************************************************************************)
EXTENDS Integers, Sequences, FiniteSets, TLC

(* ------------------------------ bounds --------------------------------- *)

\* Date.now() when the page is loaded.
StartClock == 5000
\* The time (ms) the model explores after the page is loaded.
MaxElapsed == 5000
\* Crawl requests one session sends within the explored time.
MaxRequests == 2

\* The longest text the URL field is typed up to.
MaxUrlLen == 11

\* Clock advances (ms) between two events.
Ticks == {999, 4001}

(* ------------------------- program constants --------------------------- *)

MAX_CRAWL_PAGES == 100
CRAWL_COOLDOWN == 5000

(* ------------------------- character strings --------------------------- *)

Str_http == <<"h", "t", "t", "p", ":", "/", "/">>
Str_https == <<"h", "t", "t", "p", "s", ":", "/", "/">>

IsWhitespace(c) == c \in {" ", "\t", "\n"}

UpperCase == {"A", "B", "H", "P", "S", "T"}

\* String.prototype.toLowerCase, one character.
LowerChar(c) ==
    CASE c = "A" -> "a"
      [] c = "B" -> "b"
      [] c = "H" -> "h"
      [] c = "P" -> "p"
      [] c = "S" -> "s"
      [] c = "T" -> "t"
      [] OTHER -> c

toLowerCase(s) == [i \in 1..Len(s) |-> LowerChar(s[i])]

RECURSIVE TrimStart(_)
TrimStart(s) ==
    IF s # <<>> /\ IsWhitespace(Head(s)) THEN TrimStart(Tail(s)) ELSE s

RECURSIVE TrimEnd(_)
TrimEnd(s) ==
    IF s # <<>> /\ IsWhitespace(s[Len(s)])
    THEN TrimEnd(SubSeq(s, 1, Len(s) - 1))
    ELSE s

\* String.prototype.trim
trim(s) == TrimEnd(TrimStart(s))

\* String.prototype.startsWith
startsWith(s, p) == Len(s) >= Len(p) /\ SubSeq(s, 1, Len(p)) = p

(* --------------------------- Input Validator --------------------------- *)

NormalizeNoTrim(raw) ==
    LET n == toLowerCase(raw)
    IN  IF ~startsWith(n, Str_http) /\ ~startsWith(n, Str_https)
        THEN Str_https \o n
        ELSE n

\* normalizedUrl, as a function of the URL field.
Normalize(raw) ==
    LET n == toLowerCase(trim(raw))
    IN  IF ~startsWith(n, Str_http) /\ ~startsWith(n, Str_https)
        THEN Str_https \o n
        ELSE n

RECURSIVE SkipSlashes(_)
SkipSlashes(s) ==
    IF s # <<>> /\ Head(s) \in {"/", "\\"} THEN SkipSlashes(Tail(s)) ELSE s

RECURSIVE HostOf(_)
\* The characters up to the end of the authority.
HostOf(s) ==
    IF s = <<>> \/ Head(s) \in {"/", "\\", "?", "#"}
    THEN <<>>
    ELSE <<Head(s)>> \o HostOf(Tail(s))

\* Code points the URL parser refuses in a host.
ForbiddenHostChar(c) == c \in {" ", "\t", "\n", "<", ">", "^", "|", "%"}

\* new URL(s) does not throw, for a string with an http or https scheme:
\* the host is not empty and has no forbidden code point.
ParsesAsUrl(s) ==
    LET rest == IF startsWith(s, Str_https)
                THEN SubSeq(s, Len(Str_https) + 1, Len(s))
                ELSE IF startsWith(s, Str_http)
                     THEN SubSeq(s, Len(Str_http) + 1, Len(s))
                     ELSE <<>>
        host == HostOf(SkipSlashes(rest))
    IN  /\ host # <<>>
        /\ \A i \in 1..Len(host) : ~ForbiddenHostChar(host[i])

\* isValidMaxPages, as a function of the page count.
IsValidMaxPages(n) == n \in Int /\ n > 0

(* ------------------------------ parseInt ------------------------------- *)

Digit == [c \in {"0", "1", "2", "3", "4", "5", "6", "7", "8", "9"} |->
            CASE c = "0" -> 0 [] c = "1" -> 1 [] c = "2" -> 2 [] c = "3" -> 3
              [] c = "4" -> 4 [] c = "5" -> 5 [] c = "6" -> 6 [] c = "7" -> 7
              [] c = "8" -> 8 [] c = "9" -> 9]

RECURSIVE DigitPrefix(_, _)
\* The value of the longest prefix of decimal digits of s, after acc.
DigitPrefix(s, acc) ==
    IF s # <<>> /\ Head(s) \in DOMAIN Digit
    THEN DigitPrefix(Tail(s), 10 * acc + Digit[Head(s)])
    ELSE acc

\* parseInt(s, 10): leading whitespace, an optional sign, then digits;
\* NaN when no digit follows.
parseInt(s) ==
    LET t == TrimStart(s)
        neg == t # <<>> /\ Head(t) = "-"
        u == IF t # <<>> /\ Head(t) \in {"-", "+"} THEN Tail(t) ELSE t
    IN  IF u # <<>> /\ Head(u) \in DOMAIN Digit
        THEN [nan |-> FALSE,
              value |-> IF neg THEN 0 - DigitPrefix(u, 0) ELSE DigitPrefix(u, 0)]
        ELSE [nan |-> TRUE, value |-> 0]

DigitChar(d) ==
    CASE d = 0 -> "0" [] d = 1 -> "1" [] d = 2 -> "2" [] d = 3 -> "3"
      [] d = 4 -> "4" [] d = 5 -> "5" [] d = 6 -> "6" [] d = 7 -> "7"
      [] d = 8 -> "8" [] d = 9 -> "9"

RECURSIVE NatToString(_)
NatToString(n) ==
    IF n < 10 THEN <<DigitChar(n)>>
    ELSE NatToString(n \div 10) \o <<DigitChar(n % 10)>>

\* Number.prototype.toString of an integer.
toString(n) == IF n < 0 THEN <<"-">> \o NatToString(0 - n) ELSE NatToString(n)

(* ----------------------------- Rate Limiter ---------------------------- *)

InCooldownShort(now, last) == now - last < CRAWL_COOLDOWN - 1000

\* The test of the cooldown branch of crawlWebsite.
InCooldown(now, last) == now - last < CRAWL_COOLDOWN

\* Math.ceil(x / d) for d > 0.
Ceil(x, d) == 0 - ((0 - x) \div d)

WaitSecondsFloor(now, last) == (CRAWL_COOLDOWN - (now - last)) \div 1000

\* The number of seconds the cooldown alert reports.
WaitSeconds(now, last) == Ceil(CRAWL_COOLDOWN - (now - last), 1000)

(* ----------------------------- CrawlResult ----------------------------- *)

\* A field of a page's content: an array of strings, absent, or a value
\* that is not an array.
Arr(items) == [kind |-> "array", items |-> items]
Missing == [kind |-> "missing", items |-> <<>>]
NotArray == [kind |-> "string", items |-> <<>>]

HeadingKeys == <<"h1", "h2", "h3", "h4">>
ContentKeys == <<"h1", "h2", "h3", "h4", "text">>

EmptyContent == [k \in {"h1", "h2", "h3", "h4", "text"} |-> Missing]

\* A page: its content is an object, absent, null, or a string.
ObjectPage(c) == [contentKind |-> "object", content |-> c]
OtherPage(kind) == [contentKind |-> kind, content |-> EmptyContent]

\* result.value: null, or the decoded body of a response.
NullResult == [isNull |-> TRUE, pagesKind |-> "missing", pages |-> <<>>]
PagesResult(pages) == [isNull |-> FALSE, pagesKind |-> "array", pages |-> pages]
NoPagesResult(kind) == [isNull |-> FALSE, pagesKind |-> kind, pages |-> <<>>]

\* {pages: [{content: {h1: ["A"], text: ["b", "c"]}}, {content: {}}]}
BodyExample ==
    PagesResult(<<
        ObjectPage([EmptyContent EXCEPT !["h1"] = Arr(<<"A">>),
                                        !["text"] = Arr(<<"b", "c">>)]),
        ObjectPage(EmptyContent)>>)

\* {pages: [{}, {content: {h1: "x", h2: ["R&D"], text: ["<script>x</script>"]}}]}
BodyMarkup ==
    PagesResult(<<
        OtherPage("missing"),
        ObjectPage([EmptyContent EXCEPT !["h1"] = NotArray,
                                        !["h2"] = Arr(<<"R&D">>),
                                        !["text"] = Arr(<<"<script>x</script>">>)])>>)

\* {pages: [{content: null}]}
BodyNullContent == PagesResult(<<OtherPage("null")>>)

\* {}
BodyNoPages == NoPagesResult("missing")

\* The bodies the crawl API answers with.
ResponseBodies == {BodyExample, BodyMarkup, BodyNullContent, BodyNoPages}

(* ------------------- JSON.stringify(value, null, 2) -------------------- *)

Indent(d) == [i \in 1..d |-> "  "]
NewLine(d) == <<"\n">> \o Indent(d)

StringLiteral(s) == <<"\"", s, "\"">>

RECURSIVE JoinElements(_, _)
\* The elements of an array or the members of an object, one per line.
JoinElements(elems, d) ==
    IF elems = <<>> THEN <<>>
    ELSE NewLine(d) \o Head(elems)
         \o (IF Len(elems) > 1 THEN <<",">> ELSE <<>>)
         \o JoinElements(Tail(elems), d)

Block(open, close, elems, d) ==
    IF elems = <<>> THEN <<open, close>>
    ELSE <<open>> \o JoinElements(elems, d + 1) \o NewLine(d) \o <<close>>

Member(key, value) == StringLiteral(key) \o <<":", " ">> \o value

StringifyField(f, d) ==
    IF f.kind = "array"
    THEN Block("[", "]", [i \in 1..Len(f.items) |-> StringLiteral(f.items[i])], d)
    ELSE StringLiteral("x")

StringifyContent(c, d) ==
    LET present == SelectSeq(ContentKeys, LAMBDA k : c[k].kind # "missing")
    IN  Block("{", "}",
              [i \in 1..Len(present) |->
                  Member(present[i], StringifyField(c[present[i]], d + 1))], d)

StringifyPage(p, d) ==
    CASE p.contentKind = "missing" -> <<"{", "}">>
      [] p.contentKind = "null" ->
            Block("{", "}", <<Member("content", <<"null">>)>>, d)
      [] p.contentKind = "string" ->
            Block("{", "}", <<Member("content", StringLiteral("x"))>>, d)
      [] OTHER ->
            Block("{", "}",
                  <<Member("content", StringifyContent(p.content, d + 1))>>, d)

\* JSON.stringify(result.value, null, 2)
Stringify(r) ==
    CASE r.isNull -> <<"null">>
      [] r.pagesKind = "missing" -> <<"{", "}">>
      [] r.pagesKind = "string" ->
            Block("{", "}", <<Member("pages", StringLiteral("x"))>>, 0)
      [] OTHER ->
            Block("{", "}",
                  <<Member("pages",
                           Block("[", "]",
                                 [i \in 1..Len(r.pages) |->
                                     StringifyPage(r.pages[i], 2)], 1))>>, 0)

(* --------------------------- sanitizeContent --------------------------- *)

\* DOMPurify.sanitize on one lexeme: a script element is removed, an
\* ampersand of the text is serialized as a character reference.
SanitizeLexeme(t) ==
    CASE t = "<script>x</script>" -> ""
      [] t = "R&D" -> "R&amp;D"
      [] OTHER -> t

sanitizeContent(text) ==
    SelectSeq([i \in 1..Len(text) |-> SanitizeLexeme(text[i])],
              LAMBDA t : t # "")

(* ------------------------------ API URL -------------------------------- *)

\* VITE_API_URL is not set.
Unset == "undefined"
\* VITE_API_URL as a deployment sets it.
ConfiguredApiUrl == "https://api.example.test"
\* The host the main entry falls back to.
DefaultApiUrl == "https://api.websitetotext.com"

\* The values of import.meta.env.VITE_API_URL.
EnvValues == {Unset, ConfiguredApiUrl}

\* axios.defaults.baseURL: import.meta.env.VITE_API_URL || default
BaseURL(e) == IF e = Unset THEN DefaultApiUrl ELSE e

\* `${import.meta.env.VITE_API_URL}/crawl`: an undefined value is
\* interpolated as the text "undefined".
CrawlUrlTemplate(e) == <<IF e = Unset THEN "undefined" ELSE e, "/crawl">>

\* axios: a URL with a scheme is absolute.
IsAbsoluteURL(u) == u[1] \in {ConfiguredApiUrl, DefaultApiUrl}

\* axios: an absolute URL is requested as it is, a relative one is
\* appended to the base URL after a slash.
RequestTarget(e) ==
    LET u == CrawlUrlTemplate(e)
    IN  IF IsAbsoluteURL(u) THEN u ELSE <<BaseURL(e), "/">> \o u

(* ------------------------------- state --------------------------------- *)

VARIABLES
    url,              \* the URL field
    maxPages,         \* the page count
    displayMaxPages,  \* the page-count field
    result,           \* the stored CrawlResult, or NullResult
    loading,          \* the loading flag
    buffer,           \* the document of the editor
    lastCrawlTime,    \* the timestamp the rate limiter records
    clock,            \* Date.now()
    requests,         \* the crawl requests sent so far, with their state
    alerts,           \* the alerts the last event raised
    download,         \* the download the last event triggered
    liveUrls,         \* object URLs created and not revoked
    uncaught,         \* the last event ended in an uncaught exception
    env               \* import.meta.env.VITE_API_URL, fixed at build time

vars == <<url, maxPages, displayMaxPages, result, loading, buffer,
          lastCrawlTime, clock, requests, alerts, download, liveUrls, uncaught,
          env>>

\* What an event handler shows the user.
CooldownAlert(n) == [kind |-> "cooldown", wait |-> n]
ValidationAlert == [kind |-> "validation", wait |-> 0]
ErrorAlert == [kind |-> "error", wait |-> 0]
FormatAlert == [kind |-> "format", wait |-> 0]

NoDownload == [name |-> "", type |-> "", content |-> <<>>]

\* The editor view exists once the component is mounted.
EditorMounted == TRUE

\* What the user types in the URL field.
UrlInputs ==
    { <<" ", "A", ".", "b", " ">>,
      <<"H", "T", "T", "P", ":", "/", "/", "a", ".", "b">>,
      <<"a", " ", "b">> }

\* What the user types in the page-count field.
PageInputs ==
    { <<"1", "5", "0">>, <<"0">>, <<>>, <<"1", "0", ".", "5">> }

\* What the user leaves in the editor after an edit.
EditTexts == { <<"{", "\"", "edited", "\"", ":", " ", "1", "}">> }

normalizedUrl == Normalize(url)
isValidUrl == ParsesAsUrl(normalizedUrl)
isValidMaxPages == IsValidMaxPages(maxPages)
canCrawl == isValidUrl /\ isValidMaxPages

Pending(k) == k \in 1..Len(requests) /\ requests[k].state = "pending"
InFlight == {k \in 1..Len(requests) : requests[k].state = "pending"}

Init ==
    /\ url = <<>>
    /\ maxPages = 10
    /\ displayMaxPages = toString(10)
    /\ result = NullResult
    /\ loading = FALSE
    /\ buffer = <<>>
    /\ lastCrawlTime = 0
    /\ clock = StartClock
    /\ requests = <<>>
    /\ alerts = <<>>
    /\ download = NoDownload
    /\ liveUrls = 0
    /\ uncaught = FALSE
    /\ env \in EnvValues

\* No alert, no download, no exception.
Quiet == alerts' = <<>> /\ download' = NoDownload /\ uncaught' = FALSE

(* ------------------------------ events --------------------------------- *)

\* Time passes.
Tick(d) ==
    /\ clock + d <= StartClock + MaxElapsed
    /\ clock' = clock + d
    /\ Quiet
    /\ UNCHANGED <<env, url, maxPages, displayMaxPages, result, loading, buffer,
                   lastCrawlTime, requests, liveUrls>>

\* v-model="url"
InputUrl(u) ==
    /\ url' = u
    /\ Quiet
    /\ UNCHANGED <<env, maxPages, displayMaxPages, result, loading, buffer,
                   lastCrawlTime, clock, requests, liveUrls>>

\* What the user types or pastes at the end of the URL field.
UrlChunks ==
    { <<" ">>, <<"A">>, Str_http,
      <<"H", "T", "T", "P", "S", ":", "/", "/">> }

\* v-model="url", for text added at the end of the field.
TypeUrl(chunk) ==
    /\ Len(url) + Len(chunk) <= MaxUrlLen
    /\ url' = url \o chunk
    /\ Quiet
    /\ UNCHANGED <<env, maxPages, displayMaxPages, result, loading, buffer,
                   lastCrawlTime, clock, requests, liveUrls>>

ClampNone(parsed) == parsed

\* Math.min(parsed, MAX_CRAWL_PAGES)
Clamp(parsed) == IF parsed < MAX_CRAWL_PAGES THEN parsed ELSE MAX_CRAWL_PAGES

\* v-model="displayMaxPages" followed by @input="updateMaxPages"
updateMaxPages(typed) ==
    LET parsed == parseInt(typed)
        pages == IF ~parsed.nan THEN Clamp(parsed.value) ELSE maxPages
    IN  /\ maxPages' = pages
        /\ displayMaxPages' = toString(pages)
        /\ Quiet
        /\ UNCHANGED <<env, url, result, loading, buffer, lastCrawlTime, clock,
                       requests, liveUrls>>

CrawlRequestRaw(u, n) == [url |-> u, max_pages |-> n]

\* The body of the POST.
CrawlRequest(u, n) == [url |-> Normalize(u), max_pages |-> n]

RateLimitedResets(now) ==
    /\ alerts' = <<CooldownAlert(WaitSeconds(now, lastCrawlTime))>>
    /\ lastCrawlTime' = now
    /\ download' = NoDownload
    /\ uncaught' = FALSE
    /\ UNCHANGED <<env, url, maxPages, displayMaxPages, result, loading, buffer,
                   clock, requests, liveUrls>>

\* crawlWebsite inside the cooldown: the alert and the early return.
RateLimited(now) ==
    /\ alerts' = <<CooldownAlert(WaitSeconds(now, lastCrawlTime))>>
    /\ download' = NoDownload
    /\ uncaught' = FALSE
    /\ UNCHANGED <<env, url, maxPages, displayMaxPages, result, loading, buffer,
                   lastCrawlTime, clock, requests, liveUrls>>

\* crawlWebsite past the cooldown while !canCrawl: the timestamp is
\* recorded, then the alert and the early return.
ValidationRejected(now) ==
    /\ lastCrawlTime' = now
    /\ alerts' = <<ValidationAlert>>
    /\ download' = NoDownload
    /\ uncaught' = FALSE
    /\ UNCHANGED <<env, url, maxPages, displayMaxPages, result, loading, buffer,
                   clock, requests, liveUrls>>

\* crawlWebsite past both gates, up to the await of the POST: the
\* timestamp is recorded, loading is set, the request is sent.
SendRequest(now) ==
    /\ Len(requests) < MaxRequests
    /\ lastCrawlTime' = now
    /\ loading' = TRUE
    /\ requests' = Append(requests,
                          [body |-> CrawlRequest(url, maxPages),
                           target |-> RequestTarget(env),
                           sentAt |-> now,
                           state |-> "pending"])
    /\ Quiet
    /\ UNCHANGED <<env, url, maxPages, displayMaxPages, result, buffer, clock,
                   liveUrls>>

\* crawlWebsite, up to its first return or suspension.
crawlWebsite ==
    LET now == clock
    IN  IF InCooldown(now, lastCrawlTime)
        THEN RateLimited(now)
        ELSE IF ~canCrawl
             THEN ValidationRejected(now)
             ELSE SendRequest(now)

\* The crawl button, disabled while loading || !canCrawl.
ClickCrawl ==
    /\ ~(loading \/ ~canCrawl)
    /\ crawlWebsite

\* The keys @keyup.enter lets through to handleKeyPress.
Keys == {"Enter"}

\* handleKeyPress, for a key released in the URL field.
handleKeyPress(key) ==
    /\ key = "Enter"
    /\ crawlWebsite

ReplaceRangeInsertOnly(doc, from, to, insert) ==
    SubSeq(doc, 1, from) \o insert \o SubSeq(doc, from + 1, Len(doc))

\* EditorView.dispatch({changes: {from, to, insert}}) on the document.
ReplaceRange(doc, from, to, insert) ==
    SubSeq(doc, 1, from) \o insert \o SubSeq(doc, to + 1, Len(doc))

\* The POST of request k is answered 2xx with body data: the rest of the
\* try block, then the finally block.
Resolve(k, data) ==
    /\ Pending(k)
    /\ requests' = [requests EXCEPT ![k].state = "fulfilled"]
    /\ result' = data
    /\ buffer' = IF EditorMounted
                 THEN ReplaceRange(buffer, 0, Len(buffer),
                                   sanitizeContent(Stringify(data)))
                 ELSE buffer
    /\ loading' = FALSE
    /\ Quiet
    /\ UNCHANGED <<env, url, maxPages, displayMaxPages, lastCrawlTime, clock, liveUrls>>

RejectNoFinally(k) ==
    /\ Pending(k)
    /\ requests' = [requests EXCEPT ![k].state = "rejected"]
    /\ alerts' = <<ErrorAlert>>
    /\ download' = NoDownload
    /\ uncaught' = FALSE
    /\ UNCHANGED <<env, url, maxPages, displayMaxPages, result, buffer, loading,
                   lastCrawlTime, clock, liveUrls>>

RejectClearsResult(k) ==
    /\ Pending(k)
    /\ requests' = [requests EXCEPT ![k].state = "rejected"]
    /\ alerts' = <<ErrorAlert>>
    /\ download' = NoDownload
    /\ uncaught' = FALSE
    /\ loading' = FALSE
    /\ result' = NullResult
    /\ UNCHANGED <<env, url, maxPages, displayMaxPages, buffer,
                   lastCrawlTime, clock, liveUrls>>

\* The POST of request k fails (transport error or non-2xx): the catch
\* block, then the finally block.
Reject(k) ==
    /\ Pending(k)
    /\ requests' = [requests EXCEPT ![k].state = "rejected"]
    /\ alerts' = <<ErrorAlert>>
    /\ download' = NoDownload
    /\ uncaught' = FALSE
    /\ loading' = FALSE
    /\ UNCHANGED <<env, url, maxPages, displayMaxPages, result, buffer,
                   lastCrawlTime, clock, liveUrls>>

\* The user edits the document of the editor.
EditBuffer(text) ==
    /\ EditorMounted
    /\ buffer' = text
    /\ Quiet
    /\ UNCHANGED <<env, url, maxPages, displayMaxPages, result, loading,
                   lastCrawlTime, clock, requests, liveUrls>>

(* --------------------------- Result Exporter --------------------------- *)

\* URL.createObjectURL and URL.revokeObjectURL, on the count of live URLs.
CreateObjectURL(n) == n + 1
RevokeNothing(n) == n
RevokeObjectURL(n) == n - 1

RECURSIVE Flatten(_)
\* Array.prototype.flatMap, after the mapping: the concatenation.
Flatten(seqs) ==
    IF seqs = <<>> THEN <<>> ELSE Head(seqs) \o Flatten(Tail(seqs))

ItemsOf(f) == IF f.kind = "array" THEN f.items ELSE <<>>

\* What one page contributes to the text export.
PageStrings(page) ==
    IF page.contentKind \notin {"object", "null"}
    THEN <<>>
    ELSE LET headers == Flatten([i \in 1..Len(HeadingKeys) |->
                                    ItemsOf(page.content[HeadingKeys[i]])])
             text == ItemsOf(page.content["text"])
         IN  headers \o text

\* Reading a property of page.content throws when content is null.
PageThrows(page) == page.contentKind = "null"

RECURSIVE Join(_, _)
\* Array.prototype.join
Join(strings, sep) ==
    IF strings = <<>> THEN <<>>
    ELSE IF Len(strings) = 1 THEN <<Head(strings)>>
    ELSE <<Head(strings), sep>> \o Join(Tail(strings), sep)

TxtContent(r) ==
    Join(Flatten([i \in 1..Len(r.pages) |-> PageStrings(r.pages[i])]), "\n\n")

downloadJSONFromResult ==
    /\ download' = [name |-> "crawl_result.json",
                    type |-> "application/json",
                    content |-> Stringify(result)]
    /\ liveUrls' = RevokeObjectURL(CreateObjectURL(liveUrls))
    /\ alerts' = <<>>
    /\ uncaught' = FALSE
    /\ UNCHANGED <<env, url, maxPages, displayMaxPages, result, loading, buffer,
                   lastCrawlTime, clock, requests>>

downloadJSON ==
    /\ IF ~EditorMounted
       THEN /\ download' = NoDownload
            /\ liveUrls' = liveUrls
       ELSE /\ download' = [name |-> "crawl_result.json",
                            type |-> "application/json",
                            content |-> buffer]
            /\ liveUrls' = RevokeObjectURL(CreateObjectURL(liveUrls))
    /\ alerts' = <<>>
    /\ uncaught' = FALSE
    /\ UNCHANGED <<env, url, maxPages, displayMaxPages, result, loading, buffer,
                   lastCrawlTime, clock, requests>>

InvalidResultStructureNullOnly(r) == r.isNull

\* !result.value || !Array.isArray(result.value.pages)
InvalidResultStructure(r) == r.isNull \/ r.pagesKind # "array"

convertToTxt ==
    /\ IF InvalidResultStructure(result)
       THEN /\ alerts' = <<FormatAlert>>
            /\ download' = NoDownload
            /\ uncaught' = FALSE
            /\ liveUrls' = liveUrls
       ELSE IF \E i \in 1..Len(result.pages) : PageThrows(result.pages[i])
       THEN /\ alerts' = <<>>
            /\ download' = NoDownload
            /\ uncaught' = TRUE
            /\ liveUrls' = liveUrls
       ELSE /\ alerts' = <<>>
            /\ download' = [name |-> "crawl_result.txt",
                            type |-> "text/plain;charset=utf-8",
                            content |-> TxtContent(result)]
            /\ uncaught' = FALSE
            /\ liveUrls' = RevokeObjectURL(CreateObjectURL(liveUrls))
    /\ UNCHANGED <<env, url, maxPages, displayMaxPages, result, loading, buffer,
                   lastCrawlTime, clock, requests>>

\* The Download JSON button, disabled while !result.
ClickDownloadJSON ==
    /\ ~result.isNull
    /\ downloadJSON

\* The Download TXT button, disabled while !result.
ClickDownloadTxt ==
    /\ ~result.isNull
    /\ convertToTxt

(* --------------------------- specifications ---------------------------- *)

\* The crawl API answers a request that is in flight.
Settle(k) == Reject(k) \/ \E data \in ResponseBodies : Resolve(k, data)

Next ==
    \/ \E d \in Ticks : Tick(d)
    \/ \E u \in UrlInputs : InputUrl(u)
    \/ \E typed \in PageInputs : updateMaxPages(typed)
    \/ ClickCrawl
    \/ \E key \in Keys : handleKeyPress(key)
    \/ \E k \in 1..MaxRequests : \E data \in ResponseBodies : Resolve(k, data)
    \/ \E k \in 1..MaxRequests : Reject(k)
    \/ \E text \in EditTexts : EditBuffer(text)
    \/ ClickDownloadJSON
    \/ ClickDownloadTxt

Spec == Init /\ [][Next]_vars

\* Every request in flight is eventually answered.
FairSpec == Spec /\ \A k \in 1..MaxRequests : WF_vars(Settle(k))

\* The user types a URL piece by piece, then releases Enter.
NormalizeNext ==
    \/ /\ requests = <<>>
       /\ alerts = <<>>
       /\ \E chunk \in UrlChunks : TypeUrl(chunk)
    \/ \E key \in Keys : handleKeyPress(key)

NormalizeSpec == Init /\ [][NormalizeNext]_vars

TypeOK ==
    /\ maxPages \in Int
    /\ loading \in BOOLEAN
    /\ clock \in StartClock..(StartClock + MaxElapsed)
    /\ Len(requests) <= MaxRequests

(* ------------------------------- claims -------------------------------- *)

\* C1: every crawlWebsite invocation that set loading to true (its request
\* is in flight) eventually settles and, settling, leaves loading false,
\* whether the POST succeeds or fails.
LoadingEventuallyCleared ==
    \A k \in 1..MaxRequests :
        Pending(k) ~> (~Pending(k) /\ k <= Len(requests) /\ loading = FALSE)

\* A failed request has cleared the loading flag it set.
FailedRequestClearedLoading ==
    /\ \E k \in 1..Len(requests) : requests[k].state = "rejected"
    /\ InFlight = {}
    /\ loading = FALSE

\* C2: at most one crawl request is in flight at any time.
AtMostOneInFlight == Cardinality(InFlight) <= 1

\* Request k is answered with a failure in this step.
Fails(k) ==
    /\ Pending(k)
    /\ requests'[k].state = "rejected"

\* C3: when the POST fails, the stored result and the editor buffer are
\* what they were, exactly one generic alert is raised, and loading goes
\* from true to false.
FailureLeavesResultAndClearsLoading ==
    [][\A k \in 1..MaxRequests :
          Fails(k) => /\ result' = result
                      /\ buffer' = buffer
                      /\ alerts' = <<ErrorAlert>>
                      /\ loading = TRUE
                      /\ loading' = FALSE]_vars

\* The milliseconds of cooldown left at this instant.
Remaining == CRAWL_COOLDOWN - (clock - lastCrawlTime)

\* C4: a crawl attempt less than 5000 ms after the recorded timestamp
\* sends nothing and raises one alert whose wait is the remaining
\* milliseconds divided by 1000, rounded up: an integer in 1..5.
CooldownRejectsWithRoundedWait ==
    [][(crawlWebsite /\ clock - lastCrawlTime < CRAWL_COOLDOWN) =>
          /\ requests' = requests
          /\ \E w \in 1..5 :
                /\ alerts' = <<CooldownAlert(w)>>
                /\ 1000 * (w - 1) < Remaining
                /\ Remaining <= 1000 * w]_vars

\* An attempt 4001 ms after a request was rejected with a wait of 1 second.
RejectedWithOneSecondLeft ==
    /\ alerts = <<CooldownAlert(1)>>
    /\ requests # <<>>
    /\ clock - lastCrawlTime = 4001

\* C5: a crawl attempt while canCrawl is false sends nothing and changes
\* no session state; the recorded timestamp in particular is unchanged.
InvalidAttemptChangesNothing ==
    [][(crawlWebsite /\ ~canCrawl) =>
          /\ requests' = requests
          /\ UNCHANGED <<lastCrawlTime, url, maxPages, displayMaxPages,
                         result, loading, buffer>>]_vars

\* C6: a crawl attempt the rate limiter rejects leaves the recorded
\* timestamp, loading, the stored result, the editor buffer and the
\* requests unchanged.
RateLimitRejectionChangesNothing ==
    [][(crawlWebsite /\ clock - lastCrawlTime < CRAWL_COOLDOWN) =>
          UNCHANGED <<lastCrawlTime, loading, result, buffer, requests,
                      url, maxPages, displayMaxPages>>]_vars

\* An attempt was rejected by the rate limiter, some time after the
\* timestamp was recorded, while a request is in flight and a result is
\* displayed.
RejectedWhileLoadingWithResult ==
    /\ alerts # <<>>
    /\ alerts[1].kind = "cooldown"
    /\ loading = TRUE
    /\ ~result.isNull
    /\ buffer # <<>>

\* C7: any two crawl requests that were sent are at least 5000 ms apart.
SentRequestsCooldownApart ==
    \A i, j \in 1..Len(requests) :
        i < j => requests[j].sentAt - requests[i].sentAt >= CRAWL_COOLDOWN

\* Two requests were sent, and both are in flight.
TwoRequestsSent ==
    /\ Len(requests) = 2
    /\ InFlight = {1, 2}

\* C8: the stored result changes only when a request is fulfilled, and
\* then it is a response body; no other event changes it.
ResultWrittenOnlyBySuccess ==
    [][result' # result =>
          \E k \in 1..MaxRequests :
              /\ Pending(k)
              /\ requests'[k].state = "fulfilled"
              /\ result' \in ResponseBodies]_vars

\* A text export ran on a stored result that a failed request left alone.
ExportedAfterFailureWithResult ==
    /\ download.name = "crawl_result.txt"
    /\ ~result.isNull
    /\ \E k \in 1..Len(requests) : requests[k].state = "rejected"

\* A string in normalized form: trimmed, lowercase, with a scheme.
IsNormalizedForm(s) ==
    /\ s # <<>>
    /\ ~IsWhitespace(s[1])
    /\ ~IsWhitespace(s[Len(s)])
    /\ \A i \in 1..Len(s) : s[i] \notin UpperCase
    /\ startsWith(s, Str_http) \/ startsWith(s, Str_https)

\* C9: the request a crawl attempt sends carries the normalized URL field,
\* which parses as a URL, and the page count, which is in 1..100.
SentRequestIsValid ==
    [][Len(requests') > Len(requests) =>
          LET sent == requests'[Len(requests')].body
              lowered == toLowerCase(trim(url))
          IN  /\ sent.url \in {lowered, Str_https \o lowered}
              /\ IsNormalizedForm(sent.url)
              /\ ParsesAsUrl(sent.url)
              /\ sent.max_pages = maxPages
              /\ sent.max_pages \in 1..MAX_CRAWL_PAGES]_vars

\* A request was sent for " A.b " with the page count typed as 150.
SentNormalizedAndClamped ==
    \E k \in 1..Len(requests) :
        /\ requests[k].body.url = Str_https \o <<"a", ".", "b">>
        /\ requests[k].body.max_pages = MAX_CRAWL_PAGES

\* The gate agrees with the page count, and the page count is at most 100.
GateMatchesPageCount ==
    /\ (maxPages \notin Int \/ maxPages <= 0) => ~canCrawl
    /\ (maxPages \in 1..MAX_CRAWL_PAGES /\ ParsesAsUrl(Normalize(url))) => canCrawl
    /\ maxPages <= MAX_CRAWL_PAGES

\* C10: canCrawl is false when the page count is not a positive integer
\* and true for a page count in 1..100 with a well-formed URL; a field
\* update that parses above 100 sets the page count to 100, and the page
\* count never exceeds 100.
PageCountGateAndClamp ==
    [][/\ GateMatchesPageCount
       /\ \A typed \in PageInputs :
             (updateMaxPages(typed) /\ ~parseInt(typed).nan
                                    /\ parseInt(typed).value > MAX_CRAWL_PAGES)
                => maxPages' = MAX_CRAWL_PAGES]_vars

\* The field was updated with 150 while the URL is well-formed.
ClampedToCeiling ==
    /\ maxPages = MAX_CRAWL_PAGES
    /\ displayMaxPages = <<"1", "0", "0">>
    /\ isValidUrl
    /\ canCrawl

\* The items of field k of a page's content, empty unless an array.
FieldItems(c, k) == IF c[k].kind = "array" THEN c[k].items ELSE <<>>

\* The strings of one page: h1, h2, h3, h4, then text; nothing when the
\* content is not an object.
ExpectedPageStrings(p) ==
    IF p.contentKind = "object"
    THEN FieldItems(p.content, "h1") \o FieldItems(p.content, "h2")
         \o FieldItems(p.content, "h3") \o FieldItems(p.content, "h4")
         \o FieldItems(p.content, "text")
    ELSE <<>>

RECURSIVE ExpectedStrings(_)
\* The strings of the pages, in page order.
ExpectedStrings(pages) ==
    IF pages = <<>> THEN <<>>
    ELSE ExpectedPageStrings(Head(pages)) \o ExpectedStrings(Tail(pages))

\* The strings with two newline characters between neighbours.
ExpectedText(strings) ==
    [i \in 1..(2 * Len(strings) - 1) |->
        IF i % 2 = 1 THEN strings[(i + 1) \div 2] ELSE "\n\n"]

TxtDownload(content) ==
    [name |-> "crawl_result.txt",
     type |-> "text/plain;charset=utf-8",
     content |-> content]

\* C11: for every stored result whose pages is an array, the text export
\* downloads the strings of each page in page order (h1, h2, h3, h4, then
\* text; a missing or non-array field is empty), joined by two newlines,
\* whatever the editor buffer holds.
TxtExportIsFlattenedResult ==
    [][(ClickDownloadTxt /\ result.pagesKind = "array") =>
          download' = TxtDownload(ExpectedText(ExpectedStrings(result.pages)))]_vars

\* C12: when some page's content is not an object, the text export raises
\* no error and downloads the text built from the remaining pages.
TxtExportSkipsNonObjectPages ==
    [][(/\ ClickDownloadTxt
        /\ result.pagesKind = "array"
        /\ \E i \in 1..Len(result.pages) : result.pages[i].contentKind # "object")
          => /\ uncaught' = FALSE
             /\ alerts' = <<>>
             /\ download'.name = "crawl_result.txt"
             /\ download'.content =
                   ExpectedText(ExpectedStrings(
                       SelectSeq(result.pages,
                                 LAMBDA p : p.contentKind = "object")))]_vars

\* C13: when the stored result is absent or its pages is not an array, the
\* text export raises the format alert, creates no blob or object URL,
\* triggers no download and changes no session state.
TxtExportAbortsOnBadShape ==
    [][(convertToTxt /\ (result.isNull \/ result.pagesKind # "array")) =>
          /\ alerts' = <<FormatAlert>>
          /\ download' = NoDownload
          /\ liveUrls' = liveUrls
          /\ uncaught' = FALSE
          /\ UNCHANGED <<url, maxPages, displayMaxPages, result, loading,
                         buffer, lastCrawlTime, requests>>]_vars

\* The text export was refused for a stored result without pages.
TxtExportRefused ==
    /\ alerts = <<FormatAlert>>
    /\ result = BodyNoPages
    /\ download = NoDownload
    /\ liveUrls = 0

\* C14: the JSON export downloads the text the editor buffer holds at the
\* moment of the export, as crawl_result.json of type application/json,
\* also when the buffer differs from the serialized stored result.
JsonExportIsBufferVerbatim ==
    [][ClickDownloadJSON =>
          download' = [name |-> "crawl_result.json",
                       type |-> "application/json",
                       content |-> buffer]]_vars

\* An edited buffer that is not the serialized result was exported, after
\* a crawl succeeded and another failed.
ExportedEditedBuffer ==
    /\ download.name = "crawl_result.json"
    /\ download.content \in EditTexts
    /\ download.content # sanitizeContent(Stringify(result))
    /\ \E k \in 1..Len(requests) : requests[k].state = "rejected"
    /\ \E k \in 1..Len(requests) : requests[k].state = "fulfilled"

\* C15: the step that fulfils a request stores the response body and
\* leaves the editor buffer equal to the sanitized indented serialization
\* of that body, with nothing of the buffer's previous content.
BufferIsSanitizedResultAfterSuccess ==
    [][\A k \in 1..MaxRequests :
          (Pending(k) /\ requests'[k].state = "fulfilled") =>
              \E data \in ResponseBodies :
                  /\ result' = data
                  /\ buffer' = sanitizeContent(Stringify(data))]_vars

\* A second successful crawl replaced the buffer, and sanitizing changed
\* the serialized text.
BufferReplacedBySecondResult ==
    /\ Len(requests) = 2
    /\ \A k \in 1..2 : requests[k].state = "fulfilled"
    /\ result = BodyMarkup
    /\ buffer = sanitizeContent(Stringify(BodyMarkup))
    /\ buffer # Stringify(BodyMarkup)

\* C16: no object URL an export created is live once the export returned.
NoLiveObjectUrls == liveUrls = 0

\* A JSON export has run and left no object URL.
JsonExportedAndRevoked ==
    /\ download.name = "crawl_result.json"
    /\ download.type = "application/json"
    /\ liveUrls = 0

\* C17: the normalized URL is the trimmed, lowercased field, with
\* https:// in front unless it begins with http:// or https:// (then its
\* scheme is kept); it has no upper case and no outer whitespace,
\* normalizing it again changes nothing, and it is what a crawl sends.
NormalizationContract ==
    LET t == toLowerCase(trim(url))
        n == Normalize(url)
    IN  /\ n = IF startsWith(t, Str_http) \/ startsWith(t, Str_https)
               THEN t
               ELSE Str_https \o t
        /\ startsWith(n, Str_http) \/ startsWith(n, Str_https)
        /\ \A i \in 1..Len(n) : n[i] \notin UpperCase
        /\ ~IsWhitespace(n[1]) /\ ~IsWhitespace(n[Len(n)])
        /\ Normalize(n) = n
        /\ \A k \in 1..Len(requests) : requests[k].body.url = n

\* A field with outer whitespace and an upper-case scheme was normalized
\* and sent.
SentNormalizedUpperCaseScheme ==
    /\ url = <<" ", "H", "T", "T", "P", "S", ":", "/", "/", "A", " ">>
    /\ requests # <<>>
    /\ requests[1].body.url = Str_https \o <<"a">>

\* C18: every crawl request goes to {apiBaseUrl}/crawl, apiBaseUrl being
\* VITE_API_URL when it is set and the default host when it is not.
RequestGoesToApiBaseCrawl ==
    \A k \in 1..Len(requests) :
        requests[k].target =
            <<IF env = Unset THEN DefaultApiUrl ELSE env, "/crawl">>

\* C19: a crawl attempt while canCrawl is false is reported as a
\* validation error, whatever the time since the last request.
InvalidAttemptReportedAsValidation ==
    [][(crawlWebsite /\ ~canCrawl) => alerts' = <<ValidationAlert>>]_vars

\* C20: loading is true exactly when a crawl request is in flight.
LoadingIffInFlight == loading <=> (InFlight # {})

====
